---- MODULE Spec2Model ----
(***************************************************************************)
(* ConcurrentHashMap<K, V, Hash> of src/lock_free_hash_table.h: a striped  *)
(* hash map.  count_threads_ shards, each a vector of storage_size_        *)
(* buckets guarded by one std::mutex; Rehashing and Clear take every       *)
(* mutex.  Each thread runs one member function at a time; pc[t] is the    *)
(* thread's position inside it.                                            *)
(***************************************************************************)
EXTENDS Integers, Sequences, FiniteSets, Bags, TLC

(***************************************************************************)
(* Program constants (lines 166-177).  kDefaultConcurrencyLevel is         *)
(* std::thread::hardware_concurrency() of the machine; 2 here.             *)
(***************************************************************************)
kDefaultSize == 29
kLimitCollisions == 25
kDefaultConcurrencyLevel == 2

(***************************************************************************)
(* Bounds of the model.                                                    *)
(***************************************************************************)
\* Threads calling into the one shared map.
Threads == {1, 2}
\* Calls issued in all, over all threads, in a concurrent run.
MaxCalls == 2
\* Calls issued in a single-threaded run.
MaxSeqCalls == 3
\* Rehashing calls on a map constructed with given arguments.
MaxRehashings == 2

\* Keys are unsigned integers.  Multiples of Stride share shard 0 and
\* bucket 0 of a freshly constructed map under std::hash (the identity).
Stride == kDefaultSize * kDefaultConcurrencyLevel
\* Before the threads start, the map is filled by FillCount sequential
\* Inserts of the keys Stride*1 .. Stride*FillCount: one bucket holds
\* FillCount entries, one below the collision limit.
FillCount == kLimitCollisions - 1
FillerKey(n) == Stride * n
FillerValue(n) == 100 + n
Fillers == {FillerKey(n) : n \in 1 .. FillCount}
\* Keys the threads use: an absent key colliding with the fillers, a filler
\* key, and an absent key of another bucket and (under std::hash) shard.
KeyA == Stride * (FillCount + 1)
KeyF == Stride * 1
KeyO == Stride + 1
Keys == {KeyA, KeyF, KeyO}
\* The pluggable Hash: std::hash<K> (identity on integers) or a
\* pathological hasher sending every key to 0.
Hashers == {"identity", "constant"}

\* An unlocked std::mutex has no owner; thread ids start at 1.
NoThread == 0
\* V(), the value-initialized V of line 133; the values inserted are positive.
DefaultV == 0
\* No value expected.
None == <<>>

VARIABLES
    count_threads_,   \* line 158, fixed at construction
    storage_size_,    \* line 159, buckets per shard
    size_,            \* line 160, std::atomic<size_t>; a negative n stands
                      \*   for the value 2^64 + n of the unsigned counter
    hash_function_,   \* line 161
    mutexes_,         \* line 162, shard -> owning thread, or NoThread
    storage_,         \* line 163, shard -> bucket -> sequence of entries
    pc,               \* thread -> position
    op,               \* thread -> the member function it runs or ran last
    key,              \* thread -> argument key
    value,            \* thread -> argument value
    extern_index,     \* thread -> local extern_index
    intern_index,     \* thread -> local intern_index
    i,                \* thread -> local i of the lock loops and of Erase's scan
    ret,              \* thread -> result of the last finished call
    calls,            \* number of calls issued so far
    pre,              \* thread -> the map as it was when the call was issued
                      \*   in a quiescent state (NoSnap otherwise)
    log,              \* the Insert calls that returned: [thread, key, value, ret]
    expect,           \* key -> value of the last Insert of the key while it was
                      \*   absent (<<v>>), None after a later Erase of it or a Clear
    tally             \* [ins, ers, distinct, clear, keys]: Insert calls,
                      \*   Erase calls on present keys, were all inserted
                      \*   keys pairwise distinct, was Clear called, the
                      \*   keys inserted so far

vars == <<count_threads_, storage_size_, size_, hash_function_, mutexes_,
          storage_, pc, op, key, value, extern_index, intern_index, i, ret,
          calls, pre, log, expect, tally>>

mapvars == <<count_threads_, storage_size_, size_, hash_function_, storage_>>
ghostvars == <<calls, pre, log, expect, tally>>


----------------------------------------------------------------------------
(* Pure helpers *)

Entry(k, v) == [key |-> k, value |-> v]

Min(S) == CHOOSE x \in S : \A y \in S : x <= y

\* hash_function_(key) for the hasher h.
HashOf(h, k) == IF h = "identity" THEN k ELSE 0

\* GetHash, lines 43-45.
GetHash(k, mod) == HashOf(hash_function_, k) % mod

\* The scan loops of Insert, Erase, Find, At: is the key in the bucket.
KeyIn(bucket, k) == \E n \in 1 .. Len(bucket) : bucket[n].key = k

\* Index of the first entry with the key (the loops stop at the first hit).
FirstIndex(bucket, k) == Min({n \in 1 .. Len(bucket) : bucket[n].key = k})

\* std::vector<...>(storage_size, {}) resized to count shards.
EmptyStorage(count, ssize) ==
    [e \in 0 .. count - 1 |-> [b \in 0 .. ssize - 1 |-> <<>>]]

CeilDiv(a, b) == (a + b - 1) \div b

Max2(a, b) == IF a >= b THEN a ELSE b
Min2(a, b) == IF a <= b THEN a ELSE b

\* The default constructor, lines 17-22, with the member initializers of
\* lines 158-160.
ConstructDefault ==
    [count_threads_ |-> kDefaultConcurrencyLevel,
     storage_size_ |-> kDefaultSize,
     size_ |-> 0,
     storage_ |-> EmptyStorage(kDefaultConcurrencyLevel, kDefaultSize)]

\* The three-argument constructor, lines 33-41.
Construct(expected_size, expected_threads_count) ==
    LET count == Min2(kDefaultConcurrencyLevel, expected_threads_count)
        ssize == Max2(kDefaultSize, CeilDiv(expected_size, count))
    IN  [count_threads_ |-> count,
         storage_size_ |-> ssize,
         size_ |-> 0,
         storage_ |-> EmptyStorage(count, ssize)]

\* The entries of one shard in iteration order (intern_index ascending,
\* then position), lines 54-55.
RECURSIVE ShardEntries(_, _)
ShardEntries(shard, from) ==
    LET rest == {b \in DOMAIN shard : b >= from /\ shard[b] # <<>>}
    IN  IF rest = {} THEN <<>>
        ELSE shard[Min(rest)] \o ShardEntries(shard, Min(rest) + 1)

\* The entries of the whole storage in iteration order, lines 53-55.
RECURSIVE AllEntries(_, _)
AllEntries(st, from) ==
    IF from \notin DOMAIN st THEN <<>>
    ELSE ShardEntries(st[from], 0) \o AllEntries(st, from + 1)

\* Mutant: the bucket count is not updated.
RehashedSizeStale(ssize, count) == ssize

\* The new bucket count Rehashing records, line 67.
RehashedSize(ssize, count) == CeilDiv(ssize * count * 3, count)

\* Mutant: entries are placed by the old bucket count.
RehashedStorageOldIndex(st, ssize, count) ==
    LET hash_map == Construct(ssize * count * 3, count)
        all == AllEntries(st, 0)
    IN  [e \in DOMAIN hash_map.storage_ |->
            [b \in DOMAIN hash_map.storage_[e] |->
                SelectSeq(all, LAMBDA p :
                    /\ GetHash(p.key, count) = e
                    /\ GetHash(p.key, ssize) = b)]]

\* Mutant: an entry replaces its new bucket instead of being appended.
RehashedStorageAssign(st, ssize, count) ==
    LET hash_map == Construct(ssize * count * 3, count)
        all == AllEntries(st, 0)
    IN  [e \in DOMAIN hash_map.storage_ |->
            [b \in DOMAIN hash_map.storage_[e] |->
                LET hit == SelectSeq(all, LAMBDA p :
                               /\ GetHash(p.key, count) = e
                               /\ GetHash(p.key, hash_map.storage_size_) = b)
                IN  IF hit = <<>> THEN <<>> ELSE <<hit[Len(hit)]>>]]

\* hash_map.storage_ after the loops of lines 51-65: every entry of st, in
\* iteration order, appended to the bucket its key hashes to.
RehashedStorage(st, ssize, count) ==
    LET hash_map == Construct(ssize * count * 3, count)
        all == AllEntries(st, 0)
    IN  [e \in DOMAIN hash_map.storage_ |->
            [b \in DOMAIN hash_map.storage_[e] |->
                SelectSeq(all, LAMBDA p :
                    /\ GetHash(p.key, count) = e
                    /\ GetHash(p.key, hash_map.storage_size_) = b)]]

\* Mutant: pop_back without the swap.
PopOnly(bucket, n) == SubSeq(bucket, 1, Len(bucket) - 1)

\* The bucket after lines 101-103: swap entry n with the last one, pop.
SwapPop(bucket, n) ==
    SubSeq([bucket EXCEPT ![n] = bucket[Len(bucket)]], 1, Len(bucket) - 1)

\* A whole Rehashing run alone on the map m (lines 51-67).
RehashMap(m) ==
    [m EXCEPT !.storage_ = RehashedStorage(m.storage_, m.storage_size_, m.count_threads_),
              !.storage_size_ = RehashedSize(m.storage_size_, m.count_threads_)]

\* A whole Insert run alone on the map m (lines 73-92).
InsertMap(m, k, v) ==
    LET e == GetHash(k, m.count_threads_)
        b == GetHash(k, m.storage_size_)
    IN  IF KeyIn(m.storage_[e][b], k) THEN m
        ELSE LET m1 == [m EXCEPT !.size_ = @ + 1,
                                 !.storage_[e][b] = Append(@, Entry(k, v))]
             IN  IF Len(m1.storage_[e][b]) < kLimitCollisions THEN m1
                 ELSE RehashMap(m1)

\* The map after construction and n sequential Inserts of the filler keys.
RECURSIVE Prefilled(_)
Prefilled(n) ==
    IF n = 0 THEN ConstructDefault
    ELSE \* the singleton set binds m to a value, computed once
         CHOOSE r \in {InsertMap(m, FillerKey(n), FillerValue(n)) :
                        m \in {Prefilled(n - 1)}} : TRUE

----------------------------------------------------------------------------
(* Observations of the state *)

\* The bag of entries stored in all buckets.
RECURSIVE SeqBag(_)
SeqBag(s) == IF s = <<>> THEN EmptyBag ELSE SetToBag({Head(s)}) (+) SeqBag(Tail(s))
Contents(st) == SeqBag(AllEntries(st, 0))

\* Number of entries stored with key k, wherever they lie.
Copies(st, k) ==
    LET all == AllEntries(st, 0)
    IN  Cardinality({n \in 1 .. Len(all) : all[n].key = k})

StoredKeys(st) ==
    LET all == AllEntries(st, 0)
    IN  {all[n].key : n \in 1 .. Len(all)}

\* Size(), lines 148-150.
Size == size_

\* The scan of Find, lines 128-133; DefaultV is V().
FindInBucket(bucket, k) ==
    IF KeyIn(bucket, k)
    THEN <<TRUE, bucket[FirstIndex(bucket, k)].value>>
    ELSE <<FALSE, DefaultV>>

\* What Find(k) returns when run alone on storage st of ssize buckets per
\* shard (lines 124-134).
FindIn(st, ssize, k) ==
    FindInBucket(st[GetHash(k, count_threads_)][GetHash(k, ssize)], k)

FindNow(k) == FindIn(storage_, storage_size_, k)

NoSnap == [size_ |-> 0, storage_size_ |-> 0, storage_ |-> <<>>]
Snapshot == [size_ |-> size_, storage_size_ |-> storage_size_, storage_ |-> storage_]

Quiescent == \A t \in Threads : pc[t] \in {"idle", "done"}


----------------------------------------------------------------------------
(* Initial state: default-constructed, then filled by sequential Inserts *)

Init ==
    /\ hash_function_ \in Hashers
    /\ LET m == Prefilled(FillCount)
       IN  /\ count_threads_ = m.count_threads_
           /\ storage_size_ = m.storage_size_
           /\ size_ = m.size_
           /\ storage_ = m.storage_
    /\ mutexes_ = [e \in 0 .. count_threads_ - 1 |-> NoThread]
    /\ pc = [t \in Threads |-> "idle"]
    /\ op = [t \in Threads |-> "none"]
    /\ key = [t \in Threads |-> 0]
    /\ value = [t \in Threads |-> DefaultV]
    /\ extern_index = [t \in Threads |-> 0]
    /\ intern_index = [t \in Threads |-> 0]
    /\ i = [t \in Threads |-> 0]
    /\ ret = [t \in Threads |-> <<>>]
    /\ calls = 0
    /\ pre = [t \in Threads |-> NoSnap]
    /\ log = {}
    /\ expect = [k \in Keys |-> None]
    /\ tally = [ins |-> FillCount, ers |-> 0, distinct |-> TRUE, clear |-> FALSE,
                keys |-> Fillers]

----------------------------------------------------------------------------
(* Calls, returns, locks *)

\* Bookkeeping of a call of f(k, v), kept when the run is tracked.
Track(t, f, k, v) ==
    /\ pre' = [pre EXCEPT ![t] = Snapshot]
    /\ expect' = CASE f = "Insert" /\ k \notin StoredKeys(storage_) ->
                        [expect EXCEPT ![k] = <<v>>]
                   [] f = "Erase" -> [expect EXCEPT ![k] = None]
                   [] f = "Clear" -> [x \in Keys |-> None]
                   [] OTHER -> expect
    /\ tally' = CASE f = "Insert" ->
                       [tally EXCEPT !.ins = @ + 1,
                                     !.distinct = @ /\ k \notin tally.keys,
                                     !.keys = @ \cup {k}]
                  [] f = "Erase" /\ k \in StoredKeys(storage_) ->
                       [tally EXCEPT !.ers = @ + 1]
                  [] f = "Clear" -> [tally EXCEPT !.clear = TRUE]
                  [] OTHER -> tally

\* Thread t starts member function f with arguments k, v at position first.
Begin(t, f, k, v, first, track) ==
    /\ pc[t] \in {"idle", "done"}
    /\ calls' = calls + 1
    /\ op' = [op EXCEPT ![t] = f]
    /\ key' = [key EXCEPT ![t] = k]
    /\ value' = [value EXCEPT ![t] = v]
    /\ ret' = [ret EXCEPT ![t] = <<>>]
    /\ pc' = [pc EXCEPT ![t] = first]
    /\ intern_index' = [intern_index EXCEPT ![t] = 0]
    /\ i' = [i EXCEPT ![t] = 0]
    /\ IF track THEN Track(t, f, k, v) ELSE UNCHANGED <<pre, expect, tally>>
    /\ UNCHANGED <<mapvars, mutexes_, log>>

\* Thread t returns r.
Return(t, r) ==
    /\ ret' = [ret EXCEPT ![t] = r]
    /\ pc' = [pc EXCEPT ![t] = "done"]
    /\ log' = IF op[t] = "Insert"
              THEN log \cup {[thread |-> t, key |-> key[t], value |-> value[t],
                              ret |-> r[1]]}
              ELSE log

\* std::mutex::lock: blocks until the mutex is free.
Lock(t, e) ==
    /\ mutexes_[e] = NoThread
    /\ mutexes_' = [mutexes_ EXCEPT ![e] = t]

\* std::mutex::unlock, or the end of a lock_guard's scope.
Unlock(t, e) == mutexes_' = [mutexes_ EXCEPT ![e] = NoThread]

----------------------------------------------------------------------------
(* Rehashing, lines 47-71 *)

CallRehashing(t, track) ==
    /\ Begin(t, "Rehashing", 0, DefaultV, "rh_lock", track)
    /\ UNCHANGED extern_index

\* RehashLock without the call of lock().
RehashLockSkipped(t) ==
    /\ pc[t] = "rh_lock"
    /\ i' = [i EXCEPT ![t] = @ + 1]
    /\ pc' = [pc EXCEPT ![t] = IF i[t] + 1 < count_threads_ THEN "rh_lock" ELSE "rh_build"]
    /\ UNCHANGED <<mapvars, mutexes_, op, key, value, extern_index, intern_index,
                   ret, ghostvars>>

\* lines 48-50, one iteration
RehashLock(t) ==
    /\ pc[t] = "rh_lock"
    /\ Lock(t, i[t])
    /\ i' = [i EXCEPT ![t] = @ + 1]
    /\ pc' = [pc EXCEPT ![t] = IF i[t] + 1 < count_threads_ THEN "rh_lock" ELSE "rh_build"]
    /\ UNCHANGED <<mapvars, op, key, value, extern_index, intern_index, ret, ghostvars>>

\* lines 51-66
RehashBuild(t) ==
    /\ pc[t] = "rh_build"
    /\ storage_' = RehashedStorage(storage_, storage_size_, count_threads_)
    /\ pc' = [pc EXCEPT ![t] = "rh_setsize"]
    /\ UNCHANGED <<count_threads_, storage_size_, size_, hash_function_, mutexes_,
                   op, key, value, extern_index, intern_index, i, ret, ghostvars>>

\* line 67
RehashSetSize(t) ==
    /\ pc[t] = "rh_setsize"
    /\ storage_size_' = RehashedSize(storage_size_, count_threads_)
    /\ i' = [i EXCEPT ![t] = count_threads_]
    /\ pc' = [pc EXCEPT ![t] = "rh_unlock"]
    /\ UNCHANGED <<count_threads_, size_, hash_function_, mutexes_, storage_,
                   op, key, value, extern_index, intern_index, ret, ghostvars>>

\* RehashUnlock with the loop condition i > 1: the mutex of shard 0 is
\* never unlocked.
RehashUnlockShort(t) ==
    /\ pc[t] = "rh_unlock"
    /\ Unlock(t, i[t] - 1)
    /\ i' = [i EXCEPT ![t] = @ - 1]
    /\ IF i[t] - 1 > 1
       THEN UNCHANGED <<pc, ret, log>>
       ELSE Return(t, IF op[t] = "Insert" THEN <<TRUE>> ELSE <<>>)
    /\ UNCHANGED <<mapvars, op, key, value, extern_index, intern_index,
                   calls, pre, expect, tally>>

\* lines 68-70, one iteration; after the last one Rehashing returns, and so
\* does the Insert that called it (line 91).
RehashUnlock(t) ==
    /\ pc[t] = "rh_unlock"
    /\ Unlock(t, i[t] - 1)
    /\ i' = [i EXCEPT ![t] = @ - 1]
    /\ IF i[t] - 1 > 0
       THEN UNCHANGED <<pc, ret, log>>
       ELSE Return(t, IF op[t] = "Insert" THEN <<TRUE>> ELSE <<>>)
    /\ UNCHANGED <<mapvars, op, key, value, extern_index, intern_index,
                   calls, pre, expect, tally>>

----------------------------------------------------------------------------
(* Insert, lines 73-92 *)

\* line 74.  The value passed is fresh for every call: the code copies
\* values and never inspects one, so distinct values are the general case.
CallInsert(t, k, track) ==
    /\ Begin(t, "Insert", k, calls + 1, "ins_lock", track)
    /\ extern_index' = [extern_index EXCEPT ![t] = GetHash(k, count_threads_)]

\* line 76
InsertLock(t) ==
    /\ pc[t] = "ins_lock"
    /\ Lock(t, extern_index[t])
    /\ pc' = [pc EXCEPT ![t] = "ins_scan"]
    /\ UNCHANGED <<mapvars, op, key, value, extern_index, intern_index, i, ret, ghostvars>>

\* Mutant: the scan looks at the last entry only.
InsertFindsLast(bucket, k) == bucket # <<>> /\ bucket[Len(bucket)].key = k

\* Mutant: the scan stops after the first entry.
InsertFindsFirst(bucket, k) == bucket # <<>> /\ bucket[1].key = k

\* The test of lines 79-83 on the bucket the key hashes to.
InsertFinds(bucket, k) == KeyIn(bucket, k)

\* Mutant: a present key gets the new value.
InsertScanOverwrite(t) ==
    /\ pc[t] = "ins_scan"
    /\ LET b == GetHash(key[t], storage_size_)
           bucket == storage_[extern_index[t]][b]
       IN  IF InsertFinds(bucket, key[t])
           THEN /\ Return(t, <<FALSE>>)
                /\ Unlock(t, extern_index[t])
                /\ storage_' = [storage_ EXCEPT ![extern_index[t]][b][FirstIndex(bucket, key[t])].value = value[t]]
                /\ UNCHANGED intern_index
           ELSE /\ pc' = [pc EXCEPT ![t] = "ins_inc"]
                /\ intern_index' = [intern_index EXCEPT ![t] = b]
                /\ UNCHANGED <<ret, mutexes_, log, storage_>>
    /\ UNCHANGED <<count_threads_, storage_size_, size_, hash_function_,
                   op, key, value, extern_index, i, calls, pre, expect, tally>>

\* lines 77-83
InsertScan(t) ==
    /\ pc[t] = "ins_scan"
    /\ LET b == GetHash(key[t], storage_size_)
       IN  IF InsertFinds(storage_[extern_index[t]][b], key[t])
           THEN /\ Return(t, <<FALSE>>)
                /\ Unlock(t, extern_index[t])
                /\ UNCHANGED intern_index
           ELSE /\ pc' = [pc EXCEPT ![t] = "ins_inc"]
                /\ intern_index' = [intern_index EXCEPT ![t] = b]
                /\ UNCHANGED <<ret, mutexes_, log>>
    /\ UNCHANGED <<mapvars, op, key, value, extern_index, i, calls, pre, expect, tally>>

\* line 84
InsertInc(t) ==
    /\ pc[t] = "ins_inc"
    /\ size_' = size_ + 1
    /\ pc' = [pc EXCEPT ![t] = "ins_emplace"]
    /\ UNCHANGED <<count_threads_, storage_size_, hash_function_, storage_, mutexes_,
                   op, key, value, extern_index, intern_index, i, ret, ghostvars>>

\* OverLimit with the test len <= kLimitCollisions at line 86: the resize
\* starts one entry later.
OverLimitLate(len) == ~(len <= kLimitCollisions)

\* The test of line 86 on the bucket's new length: is the resize due.
OverLimit(len) == ~(len < kLimitCollisions)

\* Mutant: Rehashing called inside the lock_guard's scope.
HoldIntoRehashing(t) == UNCHANGED mutexes_

\* line 89: the lock_guard's scope ends, and only then line 90 runs.
ReleaseBeforeRehashing(t) == Unlock(t, extern_index[t])

\* lines 85-90: append, compare with the limit, leave the lock_guard's scope
InsertEmplace(t) ==
    /\ pc[t] = "ins_emplace"
    /\ storage_' = [storage_ EXCEPT ![extern_index[t]][intern_index[t]] =
                        Append(@, Entry(key[t], value[t]))]
    /\ IF OverLimit(Len(storage_[extern_index[t]][intern_index[t]]) + 1)
       THEN /\ ReleaseBeforeRehashing(t)
            /\ pc' = [pc EXCEPT ![t] = "rh_lock"]
            /\ i' = [i EXCEPT ![t] = 0]
            /\ UNCHANGED <<ret, log>>
       ELSE /\ Unlock(t, extern_index[t])
            /\ Return(t, <<TRUE>>)
            /\ UNCHANGED i
    /\ UNCHANGED <<count_threads_, storage_size_, size_, hash_function_,
                   op, key, value, extern_index, intern_index, calls, pre, expect, tally>>

----------------------------------------------------------------------------
(* Erase, lines 94-108 *)

\* line 95
CallErase(t, k, track) ==
    /\ Begin(t, "Erase", k, DefaultV, "er_lock", track)
    /\ extern_index' = [extern_index EXCEPT ![t] = GetHash(k, count_threads_)]

\* line 96
EraseLock(t) ==
    /\ pc[t] = "er_lock"
    /\ Lock(t, extern_index[t])
    /\ pc' = [pc EXCEPT ![t] = "er_scan"]
    /\ UNCHANGED <<mapvars, op, key, value, extern_index, intern_index, i, ret, ghostvars>>

\* lines 97-99 and 106-107
EraseScan(t) ==
    /\ pc[t] = "er_scan"
    /\ LET b == GetHash(key[t], storage_size_)
           bucket == storage_[extern_index[t]][b]
       IN  IF KeyIn(bucket, key[t])
           THEN /\ pc' = [pc EXCEPT ![t] = "er_dec"]
                /\ intern_index' = [intern_index EXCEPT ![t] = b]
                /\ i' = [i EXCEPT ![t] = FirstIndex(bucket, key[t])]
                /\ UNCHANGED <<ret, mutexes_, log>>
           ELSE /\ Return(t, <<FALSE>>)
                /\ Unlock(t, extern_index[t])
                /\ UNCHANGED <<intern_index, i>>
    /\ UNCHANGED <<mapvars, op, key, value, extern_index, calls, pre, expect, tally>>

\* Mutant: Erase does not count.
EraseDecSkipped(t) ==
    /\ pc[t] = "er_dec"
    /\ pc' = [pc EXCEPT ![t] = "er_pop"]
    /\ UNCHANGED <<mapvars, mutexes_, op, key, value, extern_index, intern_index,
                   i, ret, ghostvars>>

\* line 100
EraseDec(t) ==
    /\ pc[t] = "er_dec"
    /\ size_' = size_ - 1
    /\ pc' = [pc EXCEPT ![t] = "er_pop"]
    /\ UNCHANGED <<count_threads_, storage_size_, hash_function_, storage_, mutexes_,
                   op, key, value, extern_index, intern_index, i, ret, ghostvars>>

\* lines 101-104
ErasePop(t) ==
    /\ pc[t] = "er_pop"
    /\ storage_' = [storage_ EXCEPT ![extern_index[t]][intern_index[t]] =
                        SwapPop(@, i[t])]
    /\ Unlock(t, extern_index[t])
    /\ Return(t, <<TRUE>>)
    /\ i' = [i EXCEPT ![t] = 0]
    /\ UNCHANGED <<count_threads_, storage_size_, size_, hash_function_,
                   op, key, value, extern_index, intern_index, calls, pre, expect, tally>>

----------------------------------------------------------------------------
(* Clear, lines 110-122 *)

CallClear(t, track) ==
    /\ Begin(t, "Clear", 0, DefaultV, "cl_zero", track)
    /\ UNCHANGED extern_index

\* ClearZero without the assignment of line 111.
ClearZeroSkipped(t) ==
    /\ pc[t] = "cl_zero"
    /\ pc' = [pc EXCEPT ![t] = "cl_lock"]
    /\ UNCHANGED <<mapvars, mutexes_,
                   op, key, value, extern_index, intern_index, i, ret, ghostvars>>

\* line 111
ClearZero(t) ==
    /\ pc[t] = "cl_zero"
    /\ size_' = 0
    /\ pc' = [pc EXCEPT ![t] = "cl_lock"]
    /\ UNCHANGED <<count_threads_, storage_size_, hash_function_, storage_, mutexes_,
                   op, key, value, extern_index, intern_index, i, ret, ghostvars>>

\* lines 112-114, one iteration
ClearLock(t) ==
    /\ pc[t] = "cl_lock"
    /\ Lock(t, i[t])
    /\ i' = [i EXCEPT ![t] = @ + 1]
    /\ pc' = [pc EXCEPT ![t] = IF i[t] + 1 < count_threads_ THEN "cl_lock" ELSE "cl_reset"]
    /\ UNCHANGED <<mapvars, op, key, value, extern_index, intern_index, ret, ghostvars>>

\* lines 115-118
ClearReset(t) ==
    /\ pc[t] = "cl_reset"
    /\ storage_size_' = kDefaultSize
    /\ storage_' = EmptyStorage(count_threads_, kDefaultSize)
    /\ i' = [i EXCEPT ![t] = count_threads_]
    /\ pc' = [pc EXCEPT ![t] = "cl_unlock"]
    /\ UNCHANGED <<count_threads_, size_, hash_function_, mutexes_,
                   op, key, value, extern_index, intern_index, ret, ghostvars>>

\* lines 119-121, one iteration
ClearUnlock(t) ==
    /\ pc[t] = "cl_unlock"
    /\ Unlock(t, i[t] - 1)
    /\ i' = [i EXCEPT ![t] = @ - 1]
    /\ IF i[t] - 1 > 0
       THEN UNCHANGED <<pc, ret, log>>
       ELSE Return(t, <<>>)
    /\ UNCHANGED <<mapvars, op, key, value, extern_index, intern_index,
                   calls, pre, expect, tally>>

----------------------------------------------------------------------------
(* Find, lines 124-134, and At, lines 136-146 *)

\* line 125
CallFind(t, k, track) ==
    /\ Begin(t, "Find", k, DefaultV, "fd_lock", track)
    /\ extern_index' = [extern_index EXCEPT ![t] = GetHash(k, count_threads_)]

\* line 126
FindLock(t) ==
    /\ pc[t] = "fd_lock"
    /\ Lock(t, extern_index[t])
    /\ pc' = [pc EXCEPT ![t] = "fd_scan"]
    /\ UNCHANGED <<mapvars, op, key, value, extern_index, intern_index, i, ret, ghostvars>>

\* lines 127-133
FindScan(t) ==
    /\ pc[t] = "fd_scan"
    /\ Return(t, FindInBucket(
                    storage_[extern_index[t]][GetHash(key[t], storage_size_)], key[t]))
    /\ Unlock(t, extern_index[t])
    /\ UNCHANGED <<mapvars, op, key, value, extern_index, intern_index, i,
                   calls, pre, expect, tally>>

\* line 137
CallAt(t, k, track) ==
    /\ Begin(t, "At", k, DefaultV, "at_lock", track)
    /\ extern_index' = [extern_index EXCEPT ![t] = GetHash(k, count_threads_)]

\* line 138
AtLock(t) ==
    /\ pc[t] = "at_lock"
    /\ Lock(t, extern_index[t])
    /\ pc' = [pc EXCEPT ![t] = "at_scan"]
    /\ UNCHANGED <<mapvars, op, key, value, extern_index, intern_index, i, ret, ghostvars>>

\* AtScan with the mutex unlocked by hand on the returning path only: the
\* throw leaves the shard locked.
AtScanLeak(t) ==
    /\ pc[t] = "at_scan"
    /\ LET bucket == storage_[extern_index[t]][GetHash(key[t], storage_size_)]
       IN  /\ Return(t, IF KeyIn(bucket, key[t])
                        THEN <<"value", bucket[FirstIndex(bucket, key[t])].value>>
                        ELSE <<"out_of_range">>)
           /\ IF KeyIn(bucket, key[t])
              THEN Unlock(t, extern_index[t])
              ELSE UNCHANGED mutexes_
    /\ UNCHANGED <<mapvars, op, key, value, extern_index, intern_index, i,
                   calls, pre, expect, tally>>

\* lines 139-145: the value, or std::out_of_range thrown through the
\* lock_guard, which unlocks
AtScan(t) ==
    /\ pc[t] = "at_scan"
    /\ LET bucket == storage_[extern_index[t]][GetHash(key[t], storage_size_)]
       IN  Return(t, IF KeyIn(bucket, key[t])
                     THEN <<"value", bucket[FirstIndex(bucket, key[t])].value>>
                     ELSE <<"out_of_range">>)
    /\ Unlock(t, extern_index[t])
    /\ UNCHANGED <<mapvars, op, key, value, extern_index, intern_index, i,
                   calls, pre, expect, tally>>

----------------------------------------------------------------------------
(* Locks held and waited for *)

\* The shard locks thread t holds.
Held(t) == {e \in DOMAIN mutexes_ : mutexes_[e] = t}

AllShards == DOMAIN mutexes_

LockWaits == {"ins_lock", "er_lock", "fd_lock", "at_lock"}
UnderLock == {"ins_scan", "ins_inc", "ins_emplace", "er_scan", "er_dec", "er_pop",
              "fd_scan", "at_scan"}

\* Thread t is about to call mutexes_[Wants(t)].lock().
IsWaiting(t) == pc[t] \in LockWaits \cup {"rh_lock", "cl_lock"}
Wants(t) == IF pc[t] \in LockWaits THEN extern_index[t] ELSE i[t]

\* Thread t is inside a call and its next step is not blocked.
CanStep(t) ==
    /\ pc[t] \notin {"idle", "done"}
    /\ IsWaiting(t) => mutexes_[Wants(t)] = NoThread

----------------------------------------------------------------------------
(* Constructor and Rehashing with the sizes at their width.

   The bucket counts above stay far below 2^31, where no conversion between
   int and size_t changes a value.  Here the arithmetic of lines 35-37, 51
   and 67 is done as the code does it: size_t values are 64 bits wide, kept
   as four 16-bit limbs, lowest first; int is 32 bits wide.  The map is
   empty, so storage_ keeps only its dimensions: shard -> number of
   buckets, with storage_size_ and the numbers of buckets as limbs. *)

Base == 2 ^ 16

\* The size_t value of n, 0 <= n < 2^31.
Wide(n) == <<n % Base, (n \div Base) % Base, 0, 0>>

\* Limbs with carries propagated, modulo 2^64.
Carry(s) ==
    LET s2 == s[2] + (s[1] \div Base)
        s3 == s[3] + (s2 \div Base)
        s4 == s[4] + (s3 \div Base)
    IN  <<s[1] % Base, s2 % Base, s3 % Base, s4 % Base>>

\* size_t addition, negation, subtraction, all modulo 2^64.
WAdd(x, y) == Carry(<<x[1] + y[1], x[2] + y[2], x[3] + y[3], x[4] + y[4]>>)
WNeg(x) ==
    WAdd(<<Base - 1 - x[1], Base - 1 - x[2], Base - 1 - x[3], Base - 1 - x[4]>>,
         Wide(1))
WSub(x, y) == WAdd(x, WNeg(y))

\* size_t multiplication by m, 0 <= m < 2^15, modulo 2^64.
WMul(x, m) == Carry(<<x[1] * m, x[2] * m, x[3] * m, x[4] * m>>)

\* size_t division by d, 0 < d < 2^15.
WDiv(x, d) ==
    LET r4 == x[4] % d
        n3 == r4 * Base + x[3]
        n2 == (n3 % d) * Base + x[2]
        n1 == (n2 % d) * Base + x[1]
    IN  <<n1 \div d, n2 \div d, n3 \div d, x[4] \div d>>

WLess(x, y) ==
    \E j \in 1 .. Len(x) : x[j] < y[j] /\ \A h \in j + 1 .. Len(x) : x[h] = y[h]

WMax(x, y) == IF WLess(x, y) THEN y ELSE x
WMin(x, y) == IF WLess(y, x) THEN y ELSE x

\* int to size_t: a negative n becomes 2^64 + n.
SizeT(n) == IF n >= 0 THEN Wide(n) ELSE WNeg(Wide(0 - n))

\* size_t to int, the narrowing at the call of line 51: the low 32 bits,
\* read as two's complement.
ToInt(x) ==
    IF x[2] >= Base \div 2 THEN (x[2] - Base) * Base + x[1] ELSE x[2] * Base + x[1]

\* The arguments of the constructor calls.
ExpectedSizes == {-1, 0, 1, 59, 715827883, 1610612736}
ExpectedThreads == -1 .. kDefaultConcurrencyLevel + 1

\* The largest number of buckets std::vector allocates for one shard,
\* (2^63 - 1) / 24 with 24 bytes per bucket; a larger request throws
\* std::length_error.  A request up to it is taken to succeed.
MaxVector == WDiv(WDiv(<<Base - 1, Base - 1, Base - 1, Base \div 2 - 1>>, 3), 8)

\* line 35: std::min<size_t>(count_threads_, expected_threads_count), with
\* count_threads_ still kDefaultConcurrencyLevel (line 158).
CtorThreads(expected_threads_count) ==
    ToInt(WMin(SizeT(kDefaultConcurrencyLevel), SizeT(expected_threads_count)))

\* lines 36-37: std::max<size_t>(storage_size_, (expected_size +
\* count_threads_ - 1) / count_threads_), for count > 0, with storage_size_
\* still kDefaultSize (line 159).
CtorBuckets(expected_size, count) ==
    WMax(Wide(kDefaultSize),
         WDiv(WSub(WAdd(SizeT(expected_size), Wide(count)), Wide(1)), count))

\* line 51: storage_size_ * count_threads_ * 3, passed as int expected_size.
RehashExpected(ssize, count) == ToInt(WMul(WMul(ssize, count), 3))

\* line 67.
RehashedBuckets(ssize, count) ==
    WDiv(WSub(WAdd(WMul(WMul(ssize, count), 3), Wide(count)), Wide(1)), count)

\* The state before the body of the three-argument constructor, called
\* with expected_size (kept in key) and expected_threads_count (kept in
\* value): the member initializers of lines 158-160.
InitSizes ==
    /\ hash_function_ \in Hashers
    /\ count_threads_ = kDefaultConcurrencyLevel
    /\ storage_size_ = Wide(kDefaultSize)
    /\ size_ = 0
    /\ mutexes_ = [e \in {} |-> NoThread]
    /\ storage_ = [e \in {} |-> Wide(0)]
    /\ pc = [t \in Threads |-> IF t = 1 THEN "ctor_count" ELSE "idle"]
    /\ op = [t \in Threads |-> IF t = 1 THEN "ConcurrentHashMap" ELSE "none"]
    /\ \E expected_size \in ExpectedSizes, expected_threads_count \in ExpectedThreads :
           /\ key = [t \in Threads |-> IF t = 1 THEN expected_size ELSE 0]
           /\ value = [t \in Threads |-> IF t = 1 THEN expected_threads_count
                                                 ELSE DefaultV]
    /\ extern_index = [t \in Threads |-> 0]
    /\ intern_index = [t \in Threads |-> 0]
    /\ i = [t \in Threads |-> 0]
    /\ ret = [t \in Threads |-> <<>>]
    /\ calls = 0
    /\ pre = [t \in Threads |-> NoSnap]
    /\ log = {}
    /\ expect = [k \in Keys |-> None]
    /\ tally = [ins |-> 0, ers |-> 0, distinct |-> TRUE, clear |-> FALSE, keys |-> {}]

\* line 35
CtorCount(t) ==
    /\ pc[t] = "ctor_count"
    /\ count_threads_' = CtorThreads(value[t])
    /\ pc' = [pc EXCEPT ![t] = "ctor_size"]
    /\ UNCHANGED <<storage_size_, size_, hash_function_, mutexes_, storage_,
                   op, key, value, extern_index, intern_index, i, ret, ghostvars>>

\* lines 36-37.  With count_threads_ = 0 the division is by zero, which is
\* undefined: the process is stopped by a trap, or the division yields 0
\* and the constructor goes on.
CtorSize(t) ==
    /\ pc[t] = "ctor_size"
    /\ IF count_threads_ = 0
       THEN \/ /\ pc' = [pc EXCEPT ![t] = "crashed"]
               /\ UNCHANGED storage_size_
            \/ /\ pc' = [pc EXCEPT ![t] = "ctor_alloc"]
               /\ storage_size_' = WMax(Wide(kDefaultSize), Wide(0))
       ELSE /\ pc' = [pc EXCEPT ![t] = "ctor_alloc"]
            /\ storage_size_' = CtorBuckets(key[t], count_threads_)
    /\ UNCHANGED <<count_threads_, size_, hash_function_, mutexes_, storage_,
                   op, key, value, extern_index, intern_index, i, ret, ghostvars>>

\* lines 38-40: the locks and the bucket arrays; std::length_error leaves
\* the constructor when one array cannot be that long.
CtorAlloc(t) ==
    /\ pc[t] = "ctor_alloc"
    /\ mutexes_' = [e \in 0 .. count_threads_ - 1 |-> NoThread]
    /\ IF WLess(MaxVector, storage_size_)
       THEN /\ pc' = [pc EXCEPT ![t] = "threw"]
            /\ UNCHANGED <<storage_, ret, log>>
       ELSE /\ storage_' = [e \in 0 .. count_threads_ - 1 |-> storage_size_]
            /\ Return(t, <<>>)
    /\ UNCHANGED <<count_threads_, storage_size_, size_, hash_function_,
                   op, key, value, extern_index, intern_index, i,
                   calls, pre, expect, tally>>

\* lines 51-66 on the empty map: the temporary map is constructed from the
\* two int arguments and its arrays replace storage_.  Its constructor may
\* throw std::length_error, which leaves Rehashing with every lock held.
\* When storage_ has fewer buckets than storage_size_ says, the loops of
\* lines 53-55 read behind the arrays, which is undefined: the process is
\* stopped, or what is read looks like empty buckets.
SizesBuild(t) ==
    /\ pc[t] = "rh_build"
    /\ LET count == CtorThreads(ToInt(Wide(count_threads_)))
           ssize == CtorBuckets(RehashExpected(storage_size_, count_threads_), count)
       IN  \/ /\ \E e \in DOMAIN storage_ : WLess(storage_[e], storage_size_)
              /\ pc' = [pc EXCEPT ![t] = "crashed"]
              /\ UNCHANGED storage_
           \/ /\ WLess(MaxVector, ssize)
              /\ pc' = [pc EXCEPT ![t] = "threw"]
              /\ UNCHANGED storage_
           \/ /\ ~WLess(MaxVector, ssize)
              /\ pc' = [pc EXCEPT ![t] = "rh_setsize"]
              /\ storage_' = [e \in 0 .. count - 1 |-> ssize]
    /\ UNCHANGED <<count_threads_, storage_size_, size_, hash_function_, mutexes_,
                   op, key, value, extern_index, intern_index, i, ret, ghostvars>>

\* line 67
SizesSetSize(t) ==
    /\ pc[t] = "rh_setsize"
    /\ storage_size_' = RehashedBuckets(storage_size_, count_threads_)
    /\ i' = [i EXCEPT ![t] = count_threads_]
    /\ pc' = [pc EXCEPT ![t] = "rh_unlock"]
    /\ UNCHANGED <<count_threads_, size_, hash_function_, mutexes_, storage_,
                   op, key, value, extern_index, intern_index, ret, ghostvars>>

\* One thread constructs a map and calls Rehashing on it, tracked.  No call
\* is followed on a map without shards, where every call divides by zero.
NextSizes ==
    \/ CtorCount(1)
    \/ CtorSize(1)
    \/ CtorAlloc(1)
    \/ /\ calls < MaxRehashings
       /\ count_threads_ > 0
       /\ CallRehashing(1, TRUE)
    \/ RehashLock(1)
    \/ SizesBuild(1)
    \/ SizesSetSize(1)
    \/ RehashUnlock(1)

SpecSizes == InitSizes /\ [][NextSizes]_vars

----------------------------------------------------------------------------
(* Specifications *)

\* The steps inside the member functions.
InsertStep(t) ==
    \/ InsertLock(t)
    \/ InsertScan(t)
    \/ InsertInc(t)
    \/ InsertEmplace(t)

RehashStep(t) ==
    \/ RehashLock(t)
    \/ RehashBuild(t)
    \/ RehashSetSize(t)
    \/ RehashUnlock(t)

EraseStep(t) ==
    \/ EraseLock(t)
    \/ EraseScan(t)
    \/ EraseDec(t)
    \/ ErasePop(t)

ClearStep(t) ==
    \/ ClearZero(t)
    \/ ClearLock(t)
    \/ ClearReset(t)
    \/ ClearUnlock(t)

FindStep(t) ==
    \/ FindLock(t)
    \/ FindScan(t)

AtStep(t) ==
    \/ AtLock(t)
    \/ AtScan(t)

\* Any number of threads, every member function.
Next ==
    \E t \in Threads :
        \/ /\ calls < MaxCalls
           /\ \/ \E k \in Keys : CallInsert(t, k, FALSE)
              \/ \E k \in Keys : CallErase(t, k, FALSE)
              \/ \E k \in Keys : CallFind(t, k, FALSE)
              \/ \E k \in Keys : CallAt(t, k, FALSE)
              \/ CallClear(t, FALSE)
              \/ CallRehashing(t, FALSE)
        \/ InsertStep(t)
        \/ RehashStep(t)
        \/ EraseStep(t)
        \/ ClearStep(t)
        \/ FindStep(t)
        \/ AtStep(t)

Spec == Init /\ [][Next]_vars

\* The steps of thread t inside a call it has made, all but RehashBuild.
Work(t) ==
    \/ InsertStep(t)
    \/ RehashLock(t)
    \/ RehashSetSize(t)
    \/ RehashUnlock(t)
    \/ EraseStep(t)
    \/ ClearStep(t)
    \/ FindStep(t)
    \/ AtStep(t)

\* Any number of threads, every member function, one key per function:
\* Insert of the absent key that fills a bucket to the limit, Erase and
\* Find of a stored key of the same shard, At of an absent key.
NextFair ==
    \E t \in Threads :
        \/ /\ calls < MaxCalls
           /\ \/ CallInsert(t, KeyA, FALSE)
              \/ CallErase(t, KeyF, FALSE)
              \/ CallFind(t, KeyF, FALSE)
              \/ CallAt(t, KeyO, FALSE)
              \/ CallClear(t, FALSE)
              \/ CallRehashing(t, FALSE)
        \/ Work(t)
        \/ RehashBuild(t)

\* Fair scheduling: a thread that is inside a call and stays able to take
\* its next step (it is not waiting, or the mutex it waits for stays free)
\* takes it.  Nothing obliges a caller to make a call, and nothing is
\* assumed about which waiter gets a mutex that is unlocked.  The second
\* conjunct is WF_vars(RehashBuild(t)) with ENABLED <<RehashBuild(t)>>_vars
\* written out as pc[t] = "rh_build".
SpecFair ==
    /\ Init /\ [][NextFair]_vars
    /\ \A t \in Threads :
           /\ WF_vars(Work(t))
           /\ []<>(pc[t] # "rh_build") \/ []<><<RehashBuild(t)>>_vars

\* Threads that only insert, look up and resize.
NextIns ==
    \E t \in Threads :
        \/ /\ calls < MaxCalls
           /\ \/ \E k \in Keys : CallInsert(t, k, FALSE)
              \/ \E k \in Keys : CallFind(t, k, FALSE)
              \/ CallRehashing(t, FALSE)
        \/ InsertStep(t)
        \/ RehashStep(t)
        \/ FindStep(t)

SpecIns == Init /\ [][NextIns]_vars

\* One thread: a sequential run, tracked.
NextSeq ==
    \/ /\ calls < MaxSeqCalls
       /\ \/ \E k \in Keys : CallInsert(1, k, TRUE)
          \/ \E k \in Keys : CallErase(1, k, TRUE)
          \/ \E k \in Keys : CallFind(1, k, TRUE)
          \/ \E k \in Keys : CallAt(1, k, TRUE)
          \/ CallClear(1, TRUE)
          \/ CallRehashing(1, TRUE)
    \/ InsertStep(1)
    \/ RehashStep(1)
    \/ EraseStep(1)
    \/ ClearStep(1)
    \/ FindStep(1)
    \/ AtStep(1)

SpecSeq == Init /\ [][NextSeq]_vars

----------------------------------------------------------------------------
(* Properties *)

\* C1: whenever no call is in flight, Size() is the number of distinct keys
\* stored in the bucket arrays.
C1_SizeIsKeyCount == Quiescent => Size = Cardinality(StoredKeys(storage_))

\* C2: no deadlock.  A point operation holds no lock while it waits for its
\* shard's lock and exactly that one inside its critical section; Rehashing,
\* also when Insert calls it, and Clear start with no lock held, hold
\* exactly the shards below i while locking (ascending) and while unlocking
\* (descending), and all of them in between; so a waiting thread waits for
\* a lock above every lock it holds, and whenever a call is in flight some
\* thread can take a step.
C2_NoDeadlock ==
    /\ \A t \in Threads :
        /\ pc[t] \in LockWaits \cup {"idle", "done", "cl_zero"} => Held(t) = {}
        /\ pc[t] \in UnderLock => Held(t) = {extern_index[t]}
        /\ pc[t] \in {"rh_lock", "cl_lock", "rh_unlock", "cl_unlock"} =>
               Held(t) = {e \in AllShards : e < i[t]}
        /\ pc[t] \in {"rh_build", "rh_setsize", "cl_reset"} => Held(t) = AllShards
        /\ IsWaiting(t) => \A e \in Held(t) : e < Wants(t)
    /\ ~Quiescent => \E t \in Threads : CanStep(t)

\* C2's case: an Insert that reached the collision limit is inside
\* Rehashing, holds shard 0 and waits for shard 1, which another thread holds.
C2_Witness ==
    \E t, u \in Threads :
        /\ t # u
        /\ op[t] = "Insert" /\ pc[t] = "rh_lock" /\ i[t] = 1
        /\ Held(t) = {0}
        /\ mutexes_[1] = u

\* The Insert calls that returned, of key k.
Returned(k) == {r \in log : r.key = k}
InsertInFlight(k) ==
    \E t \in Threads : op[t] = "Insert" /\ key[t] = k /\ pc[t] \notin {"idle", "done"}

\* The lock of k's shard is free: a Find(k) arriving now runs at once.
ShardFree(k) == mutexes_[GetHash(k, count_threads_)] = NoThread

\* Every filler key is found with its value.
FillersFound ==
    \A n \in 1 .. FillCount : FindNow(FillerKey(n)) = <<TRUE, FillerValue(n)>>

\* The threads inserted pairwise disjoint sets of keys, disjoint from the
\* keys inserted before they started, each key once.
DisjointInserts ==
    /\ \A r \in log : r.key \notin Fillers
    /\ \A r1, r2 \in log : r1.key = r2.key => r1 = r2

\* C3: threads insert pairwise disjoint sets of keys, nothing is erased or
\* cleared.  When all have returned, Size() is the number of keys inserted
\* and Find(k) returns (true, v) for every inserted (k, v), whether or not
\* inserts ran Rehashing while others were in flight.
C3_DisjointInserts ==
    (Quiescent /\ DisjointInserts) =>
        /\ Size = FillCount + Cardinality(log)
        /\ \A r \in log : r.ret /\ FindNow(r.key) = <<TRUE, r.value>>
        /\ FillersFound

\* C3's case: two threads inserted different keys, both inserts ran
\* Rehashing (the bucket count grew twice), and both have returned.
C3_Witness ==
    /\ Quiescent /\ DisjointInserts
    /\ \E r1, r2 \in log : r1.thread # r2.thread /\ r1.key # r2.key
    /\ storage_size_ = kDefaultSize * 9

\* C4: Rehashing is a pure re-addressing.  The step that builds and swaps
\* in the new bucket arrays leaves the bag of stored (key, value) pairs and
\* the size counter as they were; the step that records the new bucket
\* count leaves storage and size counter alone, and after it Find returns
\* (true, value) for every stored pair.
C4_RehashPure ==
    [][\A t \in Threads :
        /\ (pc[t] = "rh_build" /\ pc'[t] = "rh_setsize") =>
               /\ Contents(storage_') = Contents(storage_)
               /\ size_' = size_
        /\ (pc[t] = "rh_setsize" /\ pc'[t] = "rh_unlock") =>
               /\ storage_' = storage_
               /\ size_' = size_
               /\ \A p \in BagToSet(Contents(storage_)) :
                      FindIn(storage_', storage_size_', p.key) = <<TRUE, p.value>>
      ]_vars

\* C4's case: a second consecutive resize has just re-addressed a full
\* bucket, the new key that triggered it included.
C4_Witness ==
    \E t \in Threads :
        /\ pc[t] = "rh_unlock"
        /\ storage_size_ = kDefaultSize * 9
        /\ Cardinality(StoredKeys(storage_)) > FillCount

\* C5: at every quiescent point each key occurs in at most one entry of the
\* whole structure.
C5_Unique == Quiescent => \A k \in StoredKeys(storage_) : Copies(storage_, k) = 1

\* C5's case: an Insert of a stored key was refused after the map was
\* resized, and the key is still stored once.
C5_Witness ==
    /\ Quiescent
    /\ \E r \in log : ~r.ret /\ Copies(storage_, r.key) = 1
    /\ storage_size_ > kDefaultSize

\* C6: of the Insert calls with one key that was absent, with no Erase or
\* Clear, exactly one returns true (never more than one, and one once all
\* have returned), the others false; a Find of the key that gets the
\* shard's lock then returns the winner's value; and when no call is in
\* flight the size counter has grown by one per key.
C6_OneWinner ==
    /\ \A k \in Keys \ Fillers :
        /\ Cardinality({r \in Returned(k) : r.ret}) <= 1
        /\ (Returned(k) # {} /\ ~InsertInFlight(k)) =>
               \E w \in Returned(k) :
                   /\ w.ret
                   /\ \A r \in Returned(k) \ {w} : ~r.ret
                   /\ ShardFree(k) => FindNow(k) = <<TRUE, w.value>>
    /\ Quiescent =>
           Size = FillCount + Cardinality({r.key : r \in log} \ Fillers)

\* C6's case: two threads inserted the same absent key with different
\* values, a resize ran, and both calls have returned.
C6_Witness ==
    /\ Quiescent
    /\ \E r1, r2 \in log :
           /\ r1.thread # r2.thread /\ r1.key = r2.key /\ r1.value # r2.value
           /\ r1.key \notin Fillers
    /\ storage_size_ > kDefaultSize

\* C7: single-threaded, Insert(k, v) of an absent key returns true, and a
\* Find(k) after it, with no Erase(k) or Clear between, returns (true, v).
C7_InsertFind ==
    \A t \in Threads : pc[t] = "done" =>
        /\ (op[t] = "Insert" /\ key[t] \notin StoredKeys(pre[t].storage_)) =>
               ret[t] = <<TRUE>>
        /\ (op[t] = "Find" /\ expect[key[t]] # None) =>
               ret[t] = <<TRUE, expect[key[t]][1]>>

\* C7's case: Find returned for a key inserted earlier, after a resize.
C7_Witness ==
    \E t \in Threads :
        /\ pc[t] = "done" /\ op[t] = "Find" /\ expect[key[t]] # None
        /\ storage_size_ > kDefaultSize

\* C8: Insert of a present key returns false and changes nothing: not the
\* stored value, the size counter, any bucket, the bucket count or the
\* shard count.
C8_InsertPresent ==
    \A t \in Threads :
        (pc[t] = "done" /\ op[t] = "Insert" /\ key[t] \in StoredKeys(pre[t].storage_)) =>
            /\ ret[t] = <<FALSE>>
            /\ storage_ = pre[t].storage_
            /\ size_ = pre[t].size_
            /\ storage_size_ = pre[t].storage_size_
            /\ DOMAIN storage_ = DOMAIN pre[t].storage_
            /\ FindNow(key[t]) = FindIn(pre[t].storage_, pre[t].storage_size_, key[t])
            /\ FindNow(key[t])[2] # value[t]

\* C8's case: an Insert of a key stored in a full bucket has returned.
C8_Witness ==
    \E t \in Threads :
        /\ pc[t] = "done" /\ op[t] = "Insert"
        /\ key[t] \in StoredKeys(pre[t].storage_)
        /\ Cardinality(StoredKeys(pre[t].storage_)) >= FillCount

\* C9: Erase of an absent key returns false and changes neither the size
\* counter nor the entries; Erase of a present key returns true, takes one
\* off the size counter, removes exactly that key's entry and leaves every
\* other key found with its value.
C9_Erase ==
    \A t \in Threads :
        (pc[t] = "done" /\ op[t] = "Erase") =>
            IF key[t] \in StoredKeys(pre[t].storage_)
            THEN /\ ret[t] = <<TRUE>>
                 /\ size_ = pre[t].size_ - 1
                 /\ FindNow(key[t]) = <<FALSE, DefaultV>>
                 /\ Contents(pre[t].storage_) =
                        Contents(storage_) (+)
                        SetToBag({Entry(key[t],
                            FindIn(pre[t].storage_, pre[t].storage_size_, key[t])[2])})
                 /\ \A k \in StoredKeys(pre[t].storage_) \ {key[t]} :
                        FindNow(k) = FindIn(pre[t].storage_, pre[t].storage_size_, k)
            ELSE /\ ret[t] = <<FALSE>>
                 /\ size_ = pre[t].size_
                 /\ storage_ = pre[t].storage_

\* C9's case: Erase removed the first entry of a bucket of several.
C9_Witness ==
    \E t \in Threads :
        /\ pc[t] = "done" /\ op[t] = "Erase" /\ ret[t] = <<TRUE>>
        /\ key[t] = KeyF
        /\ Cardinality(StoredKeys(storage_)) >= FillCount - 1

\* C10: single-threaded, after N Inserts of pairwise distinct keys and M
\* Erases of keys present at the time, with no Clear, Size() is N - M.
C10_SizeAccounting ==
    (Quiescent /\ tally.distinct /\ ~tally.clear) => Size = tally.ins - tally.ers

\* C10's case: inserts, one of them resizing, and an erase of a present key.
C10_Witness ==
    /\ Quiescent /\ tally.distinct /\ ~tally.clear
    /\ tally.ers >= 1 /\ tally.ins > FillCount
    /\ storage_size_ > kDefaultSize

\* C11: At(k) returns the stored value when k is present and fails with
\* std::out_of_range when it is absent; the failing call leaves the size
\* counter, the entries and the bucket count as they were and its shard's
\* lock free.  No other member function fails: Find of an absent key
\* returns (false, V()), Insert and Erase return a boolean, Clear and
\* Rehashing return nothing.
C11_At ==
    \A t \in Threads : pc[t] = "done" =>
        /\ op[t] = "At" =>
               /\ IF key[t] \in StoredKeys(pre[t].storage_)
                  THEN ret[t] = <<"value",
                           FindIn(pre[t].storage_, pre[t].storage_size_, key[t])[2]>>
                  ELSE ret[t] = <<"out_of_range">>
               /\ storage_ = pre[t].storage_
               /\ size_ = pre[t].size_
               /\ storage_size_ = pre[t].storage_size_
               /\ mutexes_[extern_index[t]] = NoThread
               /\ Held(t) = {}
        /\ op[t] = "Find" =>
               /\ Len(ret[t]) = 2 /\ ret[t][1] \in BOOLEAN
               /\ key[t] \notin StoredKeys(pre[t].storage_) =>
                      ret[t] = <<FALSE, DefaultV>>
        /\ op[t] \in {"Insert", "Erase"} => ret[t] \in {<<TRUE>>, <<FALSE>>}
        /\ op[t] \in {"Clear", "Rehashing"} => ret[t] = <<>>

\* C11's case: At of an absent key has thrown, after an earlier call
\* resized the map.
C11_Witness ==
    \E t \in Threads :
        /\ pc[t] = "done" /\ op[t] = "At"
        /\ ret[t] = <<"out_of_range">>
        /\ storage_size_ > kDefaultSize

\* C12: Clear, run with no other call in flight, leaves Size() at 0, every
\* key stored before not found, every shard with kDefaultSize empty
\* buckets and the bucket count at kDefaultSize, the number of shards and
\* of locks as before and all locks free; the map is usable again: an
\* Insert into the cleared map returns true, whatever the key.
C12_Clear ==
    \A t \in Threads : pc[t] = "done" =>
        /\ op[t] = "Clear" =>
               /\ Size = 0
               /\ \A k \in StoredKeys(pre[t].storage_) \cup Keys :
                      FindNow(k) = <<FALSE, DefaultV>>
               /\ storage_size_ = kDefaultSize
               /\ \A e \in DOMAIN storage_ :
                      /\ DOMAIN storage_[e] = 0 .. kDefaultSize - 1
                      /\ \A b \in DOMAIN storage_[e] : storage_[e][b] = <<>>
               /\ count_threads_ = Cardinality(DOMAIN pre[t].storage_)
               /\ DOMAIN storage_ = DOMAIN pre[t].storage_
               /\ DOMAIN mutexes_ = DOMAIN storage_
               /\ \A e \in DOMAIN mutexes_ : mutexes_[e] = NoThread
        /\ (op[t] = "Insert" /\ tally.clear /\ pre[t].size_ = 0) =>
               /\ ret[t] = <<TRUE>>
               /\ Size = 1
               /\ FindNow(key[t]) = <<TRUE, value[t]>>

\* C12's case: Clear emptied a map that held entries, one of them inserted
\* after construction, and an Insert into the cleared map has returned.
C12_Witness ==
    \E t \in Threads :
        /\ pc[t] = "done" /\ op[t] = "Insert"
        /\ tally.clear /\ pre[t].size_ = 0
        /\ tally.ins > FillCount + 1

\* C13: under fair scheduling every call runs to completion: a thread
\* inside a member function, whether running, waiting for its shard's lock
\* or collecting all locks for Rehashing or Clear, eventually returns.
C13_Completes ==
    \A t \in Threads : (pc[t] \notin {"idle", "done"}) ~> (pc[t] = "done")

\* C13's case: a thread waits for a lock that another thread holds while
\* that thread is itself inside Rehashing or Clear and already holds
\* shard 0.
C13_Witness ==
    \E t, u \in Threads :
        /\ t # u
        /\ IsWaiting(t) /\ mutexes_[Wants(t)] = u
        /\ pc[t] \in {"rh_lock", "cl_lock"} /\ Held(t) = {0}

\* C14: the constructor called with an expected entry count E >= 0 and a
\* desired shard count D >= 0 raises no error, also for degenerate inputs
\* such as E = 0, and yields a map with min(kDefaultConcurrencyLevel, D)
\* shards, as many locks and bucket arrays, and max(kDefaultSize,
\* ceil(E / shards)) buckets in every shard.
C14_Construction ==
    (op[1] = "ConcurrentHashMap" /\ key[1] >= 0 /\ value[1] >= 0) =>
        /\ pc[1] \notin {"crashed", "threw"}
        /\ pc[1] = "done" =>
               /\ count_threads_ = Min2(kDefaultConcurrencyLevel, value[1])
               /\ DOMAIN mutexes_ = 0 .. count_threads_ - 1
               /\ DOMAIN storage_ = 0 .. count_threads_ - 1
               /\ \A e \in DOMAIN storage_ : storage_[e] = storage_size_
               /\ count_threads_ > 0 =>
                      storage_size_ =
                          Wide(Max2(kDefaultSize, CeilDiv(key[1], count_threads_)))

\* C15: Clear makes every one of its writes (the size counter, the bucket
\* arrays, the bucket count) while it holds the locks of all shards, so no
\* write of Clear happens while another thread is inside the critical
\* section of an Insert, Erase, Find or At.
C15_ClearUnderLocks ==
    [][\A t \in Threads :
        (pc[t] \in {"cl_zero", "cl_reset"} /\ pc'[t] # pc[t]) =>
            /\ Held(t) = AllShards
            /\ \A u \in Threads \ {t} : pc[u] \notin UnderLock
      ]_vars

\* C16: a resize is atomic for the other operations.  The bucket arrays
\* are replaced and the bucket count is updated by a thread that holds the
\* locks of all shards; a thread inside the critical section of a point
\* operation has the lock of its key's shard and sees one complete
\* generation (every shard has storage_size_ buckets, and every entry of
\* its shard lies in the bucket its key hashes to); and a Find of a key
\* that is present throughout returns (true, value) whenever it runs.
C16_ResizeAtomic ==
    /\ \A t \in Threads :
           pc[t] \in {"rh_build", "rh_setsize"} =>
               /\ Held(t) = AllShards
               /\ \A u \in Threads \ {t} : pc[u] \notin UnderLock
    /\ \A u \in Threads :
           pc[u] \in UnderLock =>
               /\ extern_index[u] = GetHash(key[u], count_threads_)
               /\ mutexes_[extern_index[u]] = u
               /\ \A e \in DOMAIN storage_ :
                      DOMAIN storage_[e] = 0 .. storage_size_ - 1
               /\ \A b \in DOMAIN storage_[extern_index[u]] :
                      \A n \in 1 .. Len(storage_[extern_index[u]][b]) :
                          GetHash(storage_[extern_index[u]][b][n].key, storage_size_) = b
    /\ \A t \in Threads :
           (pc[t] = "done" /\ op[t] = "Find" /\ key[t] = KeyF) =>
               ret[t] = <<TRUE, FillerValue(1)>>

\* C16's case: a Find of a stored key waits for its shard's lock while a
\* resize has replaced the bucket arrays and not yet updated the bucket
\* count.
C16_Witness ==
    \E t, u \in Threads :
        /\ pc[u] = "rh_setsize"
        /\ pc[t] = "fd_lock" /\ key[t] = KeyF

\* Address consistency of a map with entries: whenever no Rehashing or Clear
\* holds a lock, there are count_threads_ shards of storage_size_ buckets
\* and every entry lies in the shard and the bucket its key hashes to.
\* It holds in every state of Spec, where bucket counts stay small.
Addressed ==
    (\A t \in Threads : pc[t] \in {"rh_lock", "rh_build", "rh_setsize", "rh_unlock",
                                   "cl_lock", "cl_reset", "cl_unlock"} => Held(t) = {}) =>
        /\ DOMAIN storage_ = 0 .. count_threads_ - 1
        /\ \A e \in DOMAIN storage_ :
              /\ DOMAIN storage_[e] = 0 .. storage_size_ - 1
              /\ \A b \in DOMAIN storage_[e] :
                    \A n \in 1 .. Len(storage_[e][b]) :
                        /\ GetHash(storage_[e][b][n].key, count_threads_) = e
                        /\ GetHash(storage_[e][b][n].key, storage_size_) = b

\* C17: whenever the map is constructed and no Rehashing or Clear holds a
\* lock, the recorded bucket count storage_size_ is the length of every
\* shard's bucket array, so that every bucket index hash % storage_size_
\* is in bounds (the map of this specification holds no entry, which
\* leaves nothing to say about the addresses of entries).
C17_RecordedBuckets ==
    (/\ \A t \in Threads : pc[t] \in {"idle", "done", "rh_lock"}
     /\ \A t \in Threads : Held(t) = {}) =>
        \A e \in DOMAIN storage_ : storage_[e] = storage_size_

\* C18: every Rehashing runs to its end, keeps the number of shards and
\* sets the bucket count to exactly three times the old one; the temporary
\* map it builds, whose arrays become storage_, has the shard count and the
\* bucket count the live map records after the swap.
C18_Tripled ==
    \A t \in Threads : op[t] = "Rehashing" =>
        /\ pc[t] \notin {"crashed", "threw"}
        /\ pc[t] \in {"rh_unlock", "done"} =>
               /\ count_threads_ = Cardinality(DOMAIN pre[t].storage_)
               /\ DOMAIN storage_ = DOMAIN pre[t].storage_
               /\ storage_size_ = WMul(pre[t].storage_size_, 3)
               /\ \A e \in DOMAIN storage_ : storage_[e] = storage_size_

\* The length the bucket of thread t's key had when t made its call.
ChainBefore(t) ==
    Len(pre[t].storage_[GetHash(key[t], count_threads_)]
                       [GetHash(key[t], pre[t].storage_size_)])

\* C19: an Insert that appends runs Rehashing if and only if its bucket's
\* length after the append is at least kLimitCollisions.  Below the limit
\* it returns true and the bucket count is as before; at or over the limit
\* it enters Rehashing holding no lock, runs it once (the bucket count is
\* three times the old one when it returns) and returns true.  This holds
\* also for an Insert into a chain that an earlier resize left at or over
\* the limit.
C19_ResizeAtLimit ==
    \A t \in Threads :
        (op[t] = "Insert" /\ key[t] \notin StoredKeys(pre[t].storage_)) =>
            /\ pc[t] \in {"rh_lock", "rh_build", "rh_setsize", "rh_unlock"} =>
                   ChainBefore(t) + 1 >= kLimitCollisions
            /\ (pc[t] = "rh_lock" /\ i[t] = 0) => Held(t) = {}
            /\ pc[t] = "done" =>
                   /\ ret[t] = <<TRUE>>
                   /\ Held(t) = {}
                   /\ storage_size_ =
                          IF ChainBefore(t) + 1 >= kLimitCollisions
                          THEN 3 * pre[t].storage_size_
                          ELSE pre[t].storage_size_

\* C19's case: an Insert into a chain that an earlier resize left at the
\* limit has resized again and returned.
C19_Witness ==
    \E t \in Threads :
        /\ pc[t] = "done" /\ op[t] = "Insert"
        /\ key[t] \notin StoredKeys(pre[t].storage_)
        /\ ChainBefore(t) >= kLimitCollisions
        /\ pre[t].storage_size_ > kDefaultSize
        /\ storage_size_ = 3 * pre[t].storage_size_

\* C20: the unsigned size counter never underflows.  A decrement is never
\* applied to a counter that is 0, so the counter never wraps around (a
\* negative size_ stands for 2^64 + size_), and Size() never exceeds the
\* number of Insert calls made, those that filled the map included.
C20_NoUnderflow ==
    /\ Size >= 0
    /\ Size <= FillCount + calls
    /\ \A t \in Threads : pc[t] = "er_dec" => size_ > 0

====
